---- MODULE Spec2Model ----
(***************************************************************************)
(* Panel-elements provisioning: the file reader (pollChanges / walkDisk),  *)
(* the directory walk, and the provisioning config reader.                 *)
(***************************************************************************)
EXTENDS Bags, FiniteSets, Integers, Sequences, TLC

(***************************************************************************)
(* Bounds of the model.                                                     *)
(***************************************************************************)
\* number of distinct well-formed definition-file contents
NumContents == 2
\* number of things the environment does to a reader: a file written, changed or
\* removed, a failing call (stat, walk, read, symlink, storage), a change of the
\* write-access flag, the cancellation
MaxEvents == 2

(***************************************************************************)
(* Strings that the code inspects character by character are sequences of  *)
(* one-character strings; a path is a sequence of such names.              *)
(***************************************************************************)
HasPrefix(s, prefix) ==
    /\ Len(s) >= Len(prefix)
    /\ SubSeq(s, 1, Len(prefix)) = prefix

HasSuffix(s, suffix) ==
    /\ Len(s) >= Len(suffix)
    /\ SubSeq(s, Len(s) - Len(suffix) + 1, Len(s)) = suffix

Dot == <<".">>
DotJson == <<".", "j", "s", "o", "n">>

\* filepath.Dir and filepath.Base on a cleaned path of at least two elements
Dir(path) == SubSeq(path, 1, Len(path) - 1)
Base(path) == path[Len(path)]

N_defs == <<"d", "e", "f", "s">>
N_sub == <<"s", "u", "b">>
N_hid == <<".", "h">>
N_Gen == <<"G", "e", "n">>
N_a_json == <<"a", ".", "j", "s", "o", "n">>
N_b_json == <<"b", ".", "j", "s", "o", "n">>
N_c_json == <<"c", ".", "j", "s", "o", "n">>

\* the resolved root of the source and the definition files that may exist below it
Root == <<N_defs>>
F_a == <<N_defs, N_a_json>>
F_b == <<N_defs, N_sub, N_b_json>>
F_c == <<N_defs, N_hid, N_c_json>>
\* F_a and F_b come and go; F_c, under a hidden directory, is always there
Files == {F_a, F_b}
HiddenFiles == {F_c}
RootDirs == {Root, <<N_defs, N_sub>>, <<N_defs, N_hid>>}

(***************************************************************************)
(* The directory walk.  A tree is a set of entries [path, isDir].          *)
(***************************************************************************)
Children(tree, path) ==
    {e \in tree : Len(e.path) = Len(path) + 1 /\ SubSeq(e.path, 1, Len(path)) = path}

\* validateWalkablePath: (isValid, err)
validateWalkablePath_descend(fileInfo) ==
    IF fileInfo.isDir
    THEN [isValid |-> FALSE, err |-> "nil"]
    ELSE IF ~HasSuffix(Base(fileInfo.path), DotJson)
         THEN [isValid |-> FALSE, err |-> "nil"]
         ELSE [isValid |-> TRUE, err |-> "nil"]

validateWalkablePath(fileInfo) ==
    IF fileInfo.isDir
    THEN IF HasPrefix(Base(fileInfo.path), Dot)
         THEN [isValid |-> FALSE, err |-> "SkipDir"]
         ELSE [isValid |-> FALSE, err |-> "nil"]
    ELSE IF ~HasSuffix(Base(fileInfo.path), DotJson)
         THEN [isValid |-> FALSE, err |-> "nil"]
         ELSE [isValid |-> TRUE, err |-> "nil"]

\* filepath.Walk with the function made by createWalkFn: the paths put in filesOnDisk
RECURSIVE Walk(_, _)
Walk(tree, fileInfo) ==
    LET v == validateWalkablePath(fileInfo)
    IN  IF ~fileInfo.isDir
        THEN IF v.isValid THEN {fileInfo.path} ELSE {}
        ELSE IF v.err = "SkipDir"
             THEN {}
             ELSE UNION {Walk(tree, c) : c \in Children(tree, fileInfo.path)}

\* the tree below Root when the files of d (path -> content, 0 for none) exist
DiskTree(d) ==
    {[path |-> p, isDir |-> TRUE] : p \in RootDirs}
        \cup {[path |-> f, isDir |-> FALSE] : f \in {g \in Files : d[g] # 0}}
        \cup {[path |-> f, isDir |-> FALSE] : f \in HiddenFiles}

(***************************************************************************)
(* Definition files: content 0 is "no file", 1..NumContents are well-formed *)
(* JSON documents.  A file that cannot be read or does not parse is a       *)
(* failing read.                                                            *)
(***************************************************************************)
ValidContents == 1..NumContents
FileContents(f) == 0..NumContents

\* util.Md5SumString: a digest of the bytes (injective on the contents modelled)
Md5Sum(content) == <<"md5", content>>

\* the fields of the parsed document the reader looks at
UidTable == <<"u1", "", "u2">>
TitleTable == <<"", "t1", "t1">>
JsonOf(content) ==
    [uid |-> UidTable[(content % 3) + 1],
     title |-> TitleTable[(content % 3) + 1],
     id |-> IF content % 2 = 1 THEN 7 ELSE 0]

\* models.SlugifyTitle: lower-cases, and turns what is not a letter or digit into "-"
SlugChar(ch) ==
    CASE ch = "G" -> "g"
      [] ch = "S" -> "s"
      [] ch = "." -> "-"
      [] OTHER -> ch
SlugifyTitle(title) == [i \in 1..Len(title) |-> SlugChar(title[i])]

(***************************************************************************)
(* The usage tracker.                                                       *)
(***************************************************************************)
EmptyMap == [k \in {} |-> 0]
newUsageTracker == [uidUsage |-> EmptyMap, titleUsage |-> EmptyMap]
EmptyMetadata == [uid |-> "", identity |-> [title |-> "", folderID |-> 0]]

\* m[k]++ on a map of uint8
Increment(m, k) ==
    IF k \in DOMAIN m
    THEN [m EXCEPT ![k] = (@ + 1) % 256]
    ELSE (k :> 1) @@ m

\* LibraryElementsIdentity.Exists
Exists(identity) == identity.title # ""

track(t, pm) ==
    LET t1 == IF pm.uid # ""
              THEN [t EXCEPT !.uidUsage = Increment(@, pm.uid)]
              ELSE t
    IN  IF Exists(pm.identity)
        THEN [t1 EXCEPT !.titleUsage = Increment(@, pm.identity)]
        ELSE t1

(***************************************************************************)
(* The provisioning store behind LibraryElementsProvisioningService: rows   *)
(* [id, path, name, checkSum], one per provisioned record.                  *)
(***************************************************************************)
GetProvisionedLibraryElementsData(rows, name) == {r \in rows : r.name = name}

SaveProvisionedLibraryElements(rows, id, dp, newId) ==
    IF id = 0
    THEN rows \cup {[id |-> newId, path |-> dp.ExternalId, name |-> dp.Name,
                     checkSum |-> dp.CheckSum]}
    ELSE {r \in rows : r.id # id}
            \cup {[id |-> id, path |-> dp.ExternalId, name |-> dp.Name,
                   checkSum |-> dp.CheckSum]}

DeleteProvisionedLibraryElements(rows, id) == {r \in rows : r.id # id}

UnprovisionLibraryElements(rows, id) == {r \in rows : r.id # id}

\* getProvisionedLibraryElementssByPath: the rows of the source keyed by ExternalID
getProvisionedLibraryElementssByPath(rows, name) ==
    LET arr == GetProvisionedLibraryElementsData(rows, name)
    IN  [p \in {r.path : r \in arr} |-> CHOOSE r \in arr : r.path = p]

\* one call on the storage interface, as logged per scan
Call(op, id, path, folderId, checkSum, name) ==
    [op |-> op, id |-> id, path |-> path, folderId |-> folderId,
     checkSum |-> checkSum, name |-> name]
SaveCall(id, path, folderId, checkSum) == Call("save", id, path, folderId, checkSum, <<>>)
DeleteCall(id) == Call("delete", id, <<>>, 0, <<>>, <<>>)
UnprovisionCall(id) == Call("unprovision", id, <<>>, 0, <<>>, <<>>)
GetFolderCall(name) == Call("getFolder", 0, <<>>, 0, <<>>, name)
CreateFolderCall(name) == Call("createFolder", 0, <<>>, 0, <<>>, name)

(***************************************************************************)
(* State.                                                                   *)
(***************************************************************************)
VARIABLES
    disk,                       \* the files below Root: path -> content
    provisioning,               \* the store's provisioning rows
    dashboards,                 \* the store's records looked up by slug: [slug, id, isFolder]
    nextId,                     \* the id the store gives the next record it inserts
    Cfg,                        \* FileReader.Cfg
    FoldersFromFilesStructure,  \* FileReader.FoldersFromFilesStructure
    dbWriteAccessRestricted,    \* FileReader.dbWriteAccessRestricted
    usageTracker,               \* FileReader.usageTracker
    pc,                         \* where pollChanges / walkDisk stands
    tickPending,                \* a tick waits in ticker.C
    cancelled,                  \* ctx.Done() is ready
    activeScans,                \* walkDisk invocations begun and not yet returned
    provisionedRefs,            \* walkDisk: provisionedLibraryElementsRefs
    filesFoundOnDisk,           \* walkDisk: filesFoundOnDisk (its keys)
    LibraryElementssToDelete,   \* handleMissingLibraryElementsFiles: ids still to handle
    todo,                       \* store loop: files of filesFoundOnDisk not yet visited
    folderID,                   \* storeDashboardsInFolder: folderID
    tracker,                    \* walkDisk: the usageTracker being built
    calls,                      \* bag of storage calls issued by the current (or last) scan
    classified,                 \* per file, what the current (or last) scan did with it
    lastResult,                 \* what the last walkDisk returned: "none", "ok", "error"
    scanClean,                  \* no call failed and no save was suppressed in this scan
    scanRestricted,             \* the flag was true when this scan began and ever since
    fsQuiet,                    \* no file changed since the last walkDisk began
    prevRun,                    \* the run before this one, if no file changed since it began
    savedContent,               \* per file, the content last saved if unchanged since
    failedOps,                  \* the calls that failed in the scan before (prev) and in
                                \* this or the last scan (cur), their files unchanged since
    events,                     \* what the environment has done so far
    tree,                       \* a directory tree given to the walk
    rootPath,                   \* the resolved root of that tree
    folderOf,                   \* per file of the tree, the folder name and id resolved
    cfgFiles,                   \* the files of the provisioning config directory
    crPc,                       \* where readConfig stands
    crNext,                     \* readConfig: index of the next file of the directory
    panels,                     \* readConfig: panels
    lastParse,                  \* the last parseConfigs call: file index and result
    crResult                    \* what readConfig returned

envVars == <<disk, events>>
storeVars == <<provisioning, dashboards, nextId>>
frVars == <<Cfg, FoldersFromFilesStructure>>
flagVars == <<dbWriteAccessRestricted, scanRestricted>>
pollVars == <<tickPending, cancelled>>
scanVars == <<provisionedRefs, filesFoundOnDisk, LibraryElementssToDelete, todo,
              folderID, tracker>>
histVars == <<fsQuiet, prevRun, savedContent, failedOps>>
walkVars == <<tree, rootPath, folderOf>>
configVars == <<cfgFiles, crPc, crNext, panels, lastParse, crResult>>
auxVars == <<walkVars, configVars>>
vars == <<disk, provisioning, dashboards, nextId, Cfg, FoldersFromFilesStructure,
          dbWriteAccessRestricted, usageTracker, pc, tickPending, cancelled,
          activeScans, provisionedRefs, filesFoundOnDisk, LibraryElementssToDelete,
          todo, folderID, tracker, calls, classified, lastResult, scanClean,
          scanRestricted, fsQuiet, prevRun, savedContent, failedOps, events, tree,
          rootPath, folderOf, cfgFiles, crPc, crNext, panels, lastParse,
          crResult>>

NoFiles == [f \in Files |-> 0]
NoFailedOps == [prev |-> {}, cur |-> {}]

\* a call that failed: a save of the file at path, or a delete or unprovision of
\* the record id that the ref of path names
FailedOp(op, id, path) == [op |-> op, id |-> id, path |-> path]
Unclassified == [f \in Files |-> "none"]

\* NewLibraryElementsFileReader: the readers that can be constructed
Configs ==
    {c \in [Name : {"A"}, DisableDeletion : BOOLEAN, Folder : {<<>>, N_Gen},
            mirrored : BOOLEAN] : ~(c.mirrored /\ c.Folder # <<>>)}

\* the reader after NewLibraryElementsFileReader, files d on disk, config c, over
\* a store that holds the provisioning rows and the records given and inserts
\* with id next
InitReaderOn(d, c, rows, recs, next) ==
    /\ disk = d
    /\ provisioning = rows
    /\ dashboards = recs
    /\ nextId = next
    /\ Cfg = [Name |-> c.Name, DisableDeletion |-> c.DisableDeletion, Folder |-> c.Folder]
    /\ FoldersFromFilesStructure = c.mirrored
    /\ dbWriteAccessRestricted = FALSE
    /\ usageTracker = newUsageTracker
    /\ pc = "select"
    /\ tickPending = FALSE
    /\ cancelled = FALSE
    /\ activeScans = 0
    /\ provisionedRefs = EmptyMap
    /\ filesFoundOnDisk = {}
    /\ LibraryElementssToDelete = {}
    /\ todo = {}
    /\ folderID = 0
    /\ tracker = newUsageTracker
    /\ calls = EmptyBag
    /\ classified = Unclassified
    /\ lastResult = "none"
    /\ scanClean = FALSE
    /\ scanRestricted = FALSE
    /\ fsQuiet = FALSE
    /\ prevRun = "none"
    /\ savedContent = NoFiles
    /\ failedOps = NoFailedOps
    /\ events = 0

\* the reader constructed over an empty store
InitReader(d, c) == InitReaderOn(d, c, {}, {}, 1)

NoWalk ==
    /\ tree = {}
    /\ rootPath = Root
    /\ folderOf = EmptyMap

\* an error value: its kind, the provider name and the file name its text holds
Err(kind, name, file) == [kind |-> kind, name |-> name, file |-> file]
Nil == Err("nil", "", <<>>)

NoParse == [file |-> 0, configs |-> <<>>, err |-> Nil]

NoConfig ==
    /\ cfgFiles = <<>>
    /\ crPc = "off"
    /\ crNext = 1
    /\ panels = <<>>
    /\ lastParse = NoParse
    /\ crResult = [configs |-> <<>>, err |-> Nil]

Init ==
    /\ \E d \in [Files -> 0..NumContents] : \E c \in Configs : InitReader(d, c)
    /\ NoWalk
    /\ NoConfig

CanFail == events < MaxEvents
Injected(out) == IF out = "ok" THEN 0 ELSE 1
Log(c) == calls (+) SetToBag({c})

(***************************************************************************)
(* pollChanges and the environment around it.                               *)
(***************************************************************************)
\* the ticker fires; ticker.C holds at most one tick.  Only the select looks at
\* the tick, so one that arrives earlier in a scan acts as one that arrives
\* before the scan's last step.
Tick ==
    /\ ~tickPending
    /\ pc \in {"select", "install"}
    /\ tickPending' = TRUE
    /\ UNCHANGED <<auxVars, envVars, storeVars, frVars, flagVars, usageTracker, pc, cancelled,
                   activeScans, scanVars, calls, classified, lastResult, scanClean,
                   histVars>>

\* the context is cancelled.  Only the select looks at ctx.Done(), so a
\* cancellation during a scan acts as one that arrives when the scan has returned.
Cancel ==
    /\ ~cancelled
    /\ pc = "select"
    /\ events < MaxEvents
    /\ cancelled' = TRUE
    /\ events' = events + 1
    /\ UNCHANGED <<auxVars, disk, storeVars, frVars, flagVars, usageTracker, pc, tickPending,
                   activeScans, scanVars, calls, classified, lastResult, scanClean,
                   histVars>>

\* pollChanges is at its select, no walkDisk running
SelectReady_async == pc # "returned"
SelectReady == pc = "select"

\* case <-ctx.Done(): return
PollReturn ==
    /\ SelectReady
    /\ cancelled
    /\ pc' = "returned"
    /\ UNCHANGED <<auxVars, envVars, storeVars, frVars, flagVars, usageTracker, pollVars,
                   activeScans, scanVars, calls, classified, lastResult, scanClean,
                   histVars>>

\* a definition file is written, changed or removed.  A change during a scan acts
\* as one before or after it, with a failing read for a file removed under it.
FsChange ==
    /\ events < MaxEvents
    /\ pc = "select"
    /\ \E f \in Files : \E c \in FileContents(f) :
        /\ c # disk[f]
        /\ disk' = [disk EXCEPT ![f] = c]
        /\ savedContent' = [savedContent EXCEPT ![f] = 0]
        /\ failedOps' = [failedOps EXCEPT !.cur = {o \in @ : o.path # f}]
    /\ events' = events + 1
    /\ fsQuiet' = FALSE
    /\ prevRun' = "none"
    /\ UNCHANGED <<auxVars, storeVars, frVars, flagVars, usageTracker, pc, pollVars,
                   activeScans, scanVars, calls, classified, lastResult, scanClean>>

\* the flag is read once per file of the store loop
changeWritePermissions(restrict) ==
    /\ pc \in {"select", "store"}
    /\ events < MaxEvents
    /\ dbWriteAccessRestricted # restrict
    /\ dbWriteAccessRestricted' = restrict
    /\ scanRestricted' = (scanRestricted /\ restrict)
    /\ events' = events + 1
    /\ UNCHANGED <<auxVars, disk, storeVars, frVars, usageTracker, pc, pollVars, activeScans,
                   scanVars, calls, classified, lastResult, scanClean, histVars>>

isDatabaseAccessRestricted == dbWriteAccessRestricted

(***************************************************************************)
(* walkDisk.                                                                *)
(***************************************************************************)
\* what the run before the one now beginning was, if no file changed since it began
PrevRunAtBegin ==
    IF ~fsQuiet \/ lastResult = "none" THEN "none"
    ELSE IF lastResult = "error" THEN "error"
    ELSE IF scanClean THEN "clean"
    ELSE "dirty"

\* the ids handleMissingLibraryElementsFiles collects: refs whose path is not on disk
MissingIds_all(refs, found) == {refs[p].id : p \in DOMAIN refs}
MissingIds(refs, found) == {refs[p].id : p \in {q \in DOMAIN refs : q \notin found}}

\* case <-ticker.C: walkDisk, up to the call of handleMissingLibraryElementsFiles:
\* os.Stat of the resolved path, the provisioned refs, the walk
WalkDiskBegin_resets ==
    /\ SelectReady
    /\ tickPending
    /\ tickPending' = FALSE
    /\ \E out \in {"ok", "statErr", "refsErr", "walkErr"} :
        /\ out # "ok" => CanFail
        /\ events' = events + Injected(out)
        /\ IF out = "ok"
           THEN LET refs == getProvisionedLibraryElementssByPath(provisioning, Cfg.Name)
                    found == Walk(DiskTree(disk), [path |-> Root, isDir |-> TRUE])
                IN  /\ provisionedRefs' = refs
                    /\ filesFoundOnDisk' = found
                    /\ LibraryElementssToDelete' = MissingIds(refs, found)
                    /\ pc' = "handleMissing"
                    /\ activeScans' = activeScans + 1
                    /\ scanClean' = TRUE
                    /\ failedOps' = [prev |-> failedOps.cur, cur |-> {}]
                    /\ UNCHANGED lastResult
           ELSE /\ provisionedRefs' = EmptyMap
                /\ filesFoundOnDisk' = {}
                /\ LibraryElementssToDelete' = {}
                /\ pc' = "select"
                /\ lastResult' = "error"
                /\ scanClean' = FALSE
                /\ failedOps' = NoFailedOps
                /\ UNCHANGED activeScans
    /\ todo' = {}
    /\ folderID' = 0
    /\ tracker' = newUsageTracker
    /\ calls' = EmptyBag
    /\ classified' = Unclassified
    /\ scanRestricted' = dbWriteAccessRestricted
    /\ fsQuiet' = TRUE
    /\ prevRun' = PrevRunAtBegin
    /\ usageTracker' = newUsageTracker
    /\ UNCHANGED <<auxVars, disk, storeVars, frVars, dbWriteAccessRestricted,
                   cancelled, savedContent>>

WalkDiskBegin ==
    /\ SelectReady
    /\ tickPending
    /\ tickPending' = FALSE
    /\ \E out \in {"ok", "statErr", "refsErr", "walkErr"} :
        /\ out # "ok" => CanFail
        /\ events' = events + Injected(out)
        /\ IF out = "ok"
           THEN LET refs == getProvisionedLibraryElementssByPath(provisioning, Cfg.Name)
                    found == Walk(DiskTree(disk), [path |-> Root, isDir |-> TRUE])
                IN  /\ provisionedRefs' = refs
                    /\ filesFoundOnDisk' = found
                    /\ LibraryElementssToDelete' = MissingIds(refs, found)
                    /\ pc' = "handleMissing"
                    /\ activeScans' = activeScans + 1
                    /\ scanClean' = TRUE
                    /\ failedOps' = [prev |-> failedOps.cur, cur |-> {}]
                    /\ UNCHANGED lastResult
           ELSE /\ provisionedRefs' = EmptyMap
                /\ filesFoundOnDisk' = {}
                /\ LibraryElementssToDelete' = {}
                /\ pc' = "select"
                /\ lastResult' = "error"
                /\ scanClean' = FALSE
                /\ failedOps' = NoFailedOps
                /\ UNCHANGED activeScans
    /\ todo' = {}
    /\ folderID' = 0
    /\ tracker' = newUsageTracker
    /\ calls' = EmptyBag
    /\ classified' = Unclassified
    /\ scanRestricted' = dbWriteAccessRestricted
    /\ fsQuiet' = TRUE
    /\ prevRun' = PrevRunAtBegin
    /\ UNCHANGED <<auxVars, disk, storeVars, frVars, dbWriteAccessRestricted,
                   usageTracker, cancelled, savedContent>>

\* handleMissingLibraryElementsFiles: which call is made for a missing record
MissingOp_delete(disableDeletion) == "delete"
MissingOp(disableDeletion) == IF disableDeletion THEN "unprovision" ELSE "delete"

\* the ids the loop over LibraryElementssToDelete has yet to visit after id
RestToDelete_break(ids, id, out) == IF out = "ok" THEN ids \ {id} ELSE {}
RestToDelete(ids, id, out) == ids \ {id}

\* one round of the loop over LibraryElementssToDelete
HandleMissing ==
    /\ pc = "handleMissing"
    /\ \E id \in LibraryElementssToDelete : \E out \in {"ok", "storeErr"} :
        /\ out # "ok" => CanFail
        /\ events' = events + Injected(out)
        /\ LibraryElementssToDelete' = RestToDelete(LibraryElementssToDelete, id, out)
        /\ IF MissingOp(Cfg.DisableDeletion) = "unprovision"
           THEN /\ calls' = Log(UnprovisionCall(id))
                /\ provisioning' = IF out = "ok"
                                   THEN UnprovisionLibraryElements(provisioning, id)
                                   ELSE provisioning
           ELSE /\ calls' = Log(DeleteCall(id))
                /\ provisioning' = IF out = "ok"
                                   THEN DeleteProvisionedLibraryElements(provisioning, id)
                                   ELSE provisioning
        /\ scanClean' = (scanClean /\ out = "ok")
        /\ failedOps' =
            IF out = "ok" THEN failedOps
            ELSE [failedOps EXCEPT !.cur = @ \cup
                    {FailedOp(MissingOp(Cfg.DisableDeletion), id, q) :
                        q \in {p \in DOMAIN provisionedRefs : provisionedRefs[p].id = id}}]
    /\ UNCHANGED <<auxVars, disk, dashboards, nextId, frVars, flagVars, usageTracker,
                   pc, pollVars, activeScans, provisionedRefs, filesFoundOnDisk, todo,
                   folderID, tracker, classified, lastResult, fsQuiet, prevRun,
                   savedContent>>

\* where walkDisk stands once the files still to visit are known
StorePc_early(left) == IF Cardinality(left) <= 1 THEN "install" ELSE "store"
StorePc(left) == IF left = {} THEN "install" ELSE "store"

\* handleMissingLibraryElementsFiles returns; walkDisk makes the new tracker and
\* enters one of the two store functions
HandleMissingReturn ==
    /\ pc = "handleMissing"
    /\ LibraryElementssToDelete = {}
    /\ tracker' = newUsageTracker
    /\ todo' = filesFoundOnDisk
    /\ pc' = IF FoldersFromFilesStructure THEN StorePc(filesFoundOnDisk) ELSE "getFolder"
    /\ UNCHANGED <<auxVars, envVars, storeVars, frVars, flagVars, usageTracker, pollVars,
                   activeScans, provisionedRefs, filesFoundOnDisk,
                   LibraryElementssToDelete, folderID, calls, classified, lastResult,
                   scanClean, histVars>>

\* getOrCreateFolderID: cmd.Result.IsFolder
IsFolder_any(result) == TRUE
IsFolder(result) == result.isFolder

\* getOrCreateFolderID: the id and error returned, the store after it, the calls made
getOrCreateFolderID(folderName, out) ==
    LET slug == SlugifyTitle(folderName)
        hits == {d \in dashboards : d.slug = slug}
        same == [dashboards |-> dashboards, nextId |-> nextId]
    IN  IF folderName = <<>>
        THEN [id |-> 0, err |-> "ErrFolderNameMissing", calls |-> EmptyBag] @@ same
        ELSE IF out = "lookupErr"
        THEN [id |-> 0, err |-> "lookupErr",
              calls |-> SetToBag({GetFolderCall(folderName)})] @@ same
        ELSE IF hits = {}
        THEN IF out = "createErr"
             THEN [id |-> 0, err |-> "createErr",
                   calls |-> SetToBag({GetFolderCall(folderName),
                                       CreateFolderCall(folderName)})] @@ same
             ELSE [id |-> nextId, err |-> "nil",
                   calls |-> SetToBag({GetFolderCall(folderName),
                                       CreateFolderCall(folderName)}),
                   dashboards |-> dashboards
                       \cup {[slug |-> slug, id |-> nextId, isFolder |-> TRUE]},
                   nextId |-> nextId + 1]
        ELSE LET result == CHOOSE d \in hits : TRUE
             IN  IF ~IsFolder(result)
                 THEN [id |-> 0, err |-> "notFolder",
                       calls |-> SetToBag({GetFolderCall(folderName)})] @@ same
                 ELSE [id |-> result.id, err |-> "nil",
                       calls |-> SetToBag({GetFolderCall(folderName)})] @@ same

\* the error is one the store functions pass on (not nil, not ErrFolderNameMissing)
FolderFailed(g) == g.err \notin {"nil", "ErrFolderNameMissing"}

\* walkDisk returns the error of a store function
WalkDiskAbort ==
    /\ pc' = "select"
    /\ lastResult' = "error"
    /\ scanClean' = FALSE
    /\ activeScans' = activeScans - 1
    /\ failedOps' = [failedOps EXCEPT !.prev = {}]

\* resolveSymlink: EvalSymlinks failing leaves checkFilepath empty, Lstat of it
\* fails, and the error is returned
resolveSymlink(out) == [err |-> out = "symlinkErr"]

\* readLibraryElementsFromFile: whether the file opens, reads and parses
Loads(path, out) == out # "readErr" /\ disk[path] \in ValidContents

\* saveLibraryElements: upToDate
upToDate_provisioned(refs, path, checkSum) == path \in DOMAIN refs
upToDate_never(refs, path, checkSum) == FALSE
upToDate(refs, path, checkSum) ==
    LET alreadyProvisioned == path \in DOMAIN refs
    IN  IF alreadyProvisioned
        THEN checkSum = refs[path].checkSum
        ELSE alreadyProvisioned

\* saveLibraryElements: the id the record carries when it is saved
RecordId_fresh(refs, path, json) == 0
RecordId_file(refs, path, json) ==
    IF path \in DOMAIN refs THEN refs[path].id ELSE json.id
RecordId(refs, path, json) ==
    LET cleared == IF json.id # 0 THEN 0 ELSE json.id
    IN  IF path \in DOMAIN refs THEN refs[path].id ELSE cleared

\* saveLibraryElements: whether the save call is made
Persist_always(restricted) == TRUE
Persist_perScan(restricted) == ~scanRestricted
Persist(restricted) == ~restricted

\* saveLibraryElements: the metadata and error returned, what was done with the
\* file (cls), and the record id and checksum of the save call if one is made
saveLibraryElements(path, folder, out) ==
    LET json == JsonOf(disk[path])
        checkSum == Md5Sum(disk[path])
        md == [uid |-> json.uid,
               identity |-> [title |-> json.title, folderID |-> folder]]
        id == RecordId(provisionedRefs, path, json)
        res(m, e, c) == [md |-> m, err |-> e, cls |-> c, id |-> id, checkSum |-> checkSum]
    IN  IF resolveSymlink(out).err THEN res(EmptyMetadata, TRUE, "symlinkErr")
        ELSE IF ~Loads(path, out) THEN res(EmptyMetadata, FALSE, "loadFailed")
        ELSE IF upToDate(provisionedRefs, path, checkSum) THEN res(md, FALSE, "upToDate")
        ELSE IF ~Persist(isDatabaseAccessRestricted) THEN res(md, FALSE, "suppressed")
        ELSE IF out = "saveErr" THEN res(md, TRUE, "saveFailed")
        ELSE res(md, FALSE, "saved")

\* the injected failure happens at a call the step really makes
Applies(out, path, r, g) ==
    CASE out = "ok" -> TRUE
      [] out = "symlinkErr" -> TRUE
      [] out = "readErr" -> disk[path] \in ValidContents
      [] out = "saveErr" -> r.cls = "saveFailed"
      [] out = "lookupErr" -> g.err = "lookupErr"
      [] out = "createErr" -> g.err = "createErr"

StoreFile_break(f, g, out, trackOnErr) ==
    LET r == saveLibraryElements(f, g.id, out)
        dp == [ExternalId |-> f, Name |-> Cfg.Name, CheckSum |-> r.checkSum]
        saved == r.cls = "saved"
        called == r.cls \in {"saved", "saveFailed"}
    IN  /\ Applies(out, f, r, g)
        /\ provisioning' = IF saved
                           THEN SaveProvisionedLibraryElements(provisioning, r.id, dp,
                                                               g.nextId)
                           ELSE provisioning
        /\ nextId' = IF saved /\ r.id = 0 THEN g.nextId + 1 ELSE g.nextId
        /\ dashboards' = g.dashboards
        /\ calls' = calls (+) g.calls
                      (+) (IF called
                           THEN SetToBag({SaveCall(r.id, f, g.id, r.checkSum)})
                           ELSE EmptyBag)
        /\ classified' = [classified EXCEPT ![f] = r.cls]
        /\ savedContent' = IF saved THEN [savedContent EXCEPT ![f] = disk[f]]
                           ELSE savedContent
        /\ scanClean' = (scanClean /\ r.cls \in {"upToDate", "saved"})
        /\ failedOps' = IF r.cls = "saveFailed"
                         THEN [failedOps EXCEPT !.cur = @ \cup {FailedOp("save", r.id, f)}]
                         ELSE failedOps
        /\ tracker' = IF r.err /\ ~trackOnErr THEN tracker ELSE track(tracker, r.md)
        /\ todo' = todo \ {f}
        /\ pc' = IF r.cls \in {"loadFailed", "saveFailed"} THEN "install"
                 ELSE StorePc(todo \ {f})

\* one file of a store loop: saveLibraryElements with folder result g, then track
StoreFile(f, g, out, trackOnErr) ==
    LET r == saveLibraryElements(f, g.id, out)
        dp == [ExternalId |-> f, Name |-> Cfg.Name, CheckSum |-> r.checkSum]
        saved == r.cls = "saved"
        called == r.cls \in {"saved", "saveFailed"}
    IN  /\ Applies(out, f, r, g)
        /\ provisioning' = IF saved
                           THEN SaveProvisionedLibraryElements(provisioning, r.id, dp,
                                                               g.nextId)
                           ELSE provisioning
        /\ nextId' = IF saved /\ r.id = 0 THEN g.nextId + 1 ELSE g.nextId
        /\ dashboards' = g.dashboards
        /\ calls' = calls (+) g.calls
                      (+) (IF called
                           THEN SetToBag({SaveCall(r.id, f, g.id, r.checkSum)})
                           ELSE EmptyBag)
        /\ classified' = [classified EXCEPT ![f] = r.cls]
        /\ savedContent' = IF saved THEN [savedContent EXCEPT ![f] = disk[f]]
                           ELSE savedContent
        /\ scanClean' = (scanClean /\ r.cls \in {"upToDate", "saved"})
        /\ failedOps' = IF r.cls = "saveFailed"
                         THEN [failedOps EXCEPT !.cur = @ \cup {FailedOp("save", r.id, f)}]
                         ELSE failedOps
        /\ tracker' = IF r.err /\ ~trackOnErr THEN tracker ELSE track(tracker, r.md)
        /\ todo' = todo \ {f}
        /\ pc' = StorePc(todo \ {f})

\* storeDashboardsInFolder: the folder of the config is resolved once
GetFolder ==
    /\ pc = "getFolder"
    /\ \E out \in {"ok", "lookupErr", "createErr"} :
        LET g == getOrCreateFolderID(Cfg.Folder, out)
        IN  /\ out # "ok" => CanFail /\ g.err = out
            /\ events' = events + Injected(out)
            /\ dashboards' = g.dashboards
            /\ nextId' = g.nextId
            /\ calls' = calls (+) g.calls
            /\ folderID' = g.id
            /\ IF FolderFailed(g)
               THEN WalkDiskAbort
               ELSE /\ pc' = StorePc(todo)
                    /\ UNCHANGED <<lastResult, scanClean, activeScans, failedOps>>
    /\ UNCHANGED <<auxVars, disk, provisioning, frVars, flagVars, usageTracker,
                   pollVars, provisionedRefs, filesFoundOnDisk,
                   LibraryElementssToDelete, todo, tracker, classified, fsQuiet,
                   prevRun, savedContent>>

\* storeDashboardsInFolder: one round of the loop over filesFoundOnDisk
StoreInFolder ==
    /\ pc = "store"
    /\ ~FoldersFromFilesStructure
    /\ \E f \in todo : \E out \in {"ok", "symlinkErr", "readErr", "saveErr"} :
        /\ out # "ok" => CanFail
        /\ events' = events + Injected(out)
        /\ StoreFile(f, [id |-> folderID, err |-> "nil", calls |-> EmptyBag,
                         dashboards |-> dashboards, nextId |-> nextId], out, FALSE)
    /\ UNCHANGED <<auxVars, disk, frVars, flagVars, usageTracker, pollVars,
                   activeScans, provisionedRefs, filesFoundOnDisk,
                   LibraryElementssToDelete, folderID, lastResult, fsQuiet, prevRun>>

\* storeLibraryElementsInFoldersFromFileStructure: the folder name of a file
FolderNameOf_base(path, resolvedPath) == Base(Dir(path))
FolderNameOf(path, resolvedPath) ==
    LET LibraryElementsFolder == Dir(path)
    IN  IF LibraryElementsFolder # resolvedPath
        THEN Base(LibraryElementsFolder)
        ELSE <<>>

\* storeLibraryElementsInFoldersFromFileStructure: one round of the loop
StoreFromFileStructure ==
    /\ pc = "store"
    /\ FoldersFromFilesStructure
    /\ \E f \in todo :
       \E out \in {"ok", "lookupErr", "createErr", "symlinkErr", "readErr", "saveErr"} :
        LET g == getOrCreateFolderID(FolderNameOf(f, Root), out)
        IN  /\ out # "ok" => CanFail
            /\ events' = events + Injected(out)
            /\ IF FolderFailed(g)
               THEN /\ out = g.err \/ (out = "ok" /\ g.err = "notFolder")
                    /\ dashboards' = g.dashboards
                    /\ nextId' = g.nextId
                    /\ calls' = calls (+) g.calls
                    /\ WalkDiskAbort
                    /\ UNCHANGED <<provisioning, classified, savedContent, tracker,
                                   todo>>
               ELSE /\ StoreFile(f, g, out, TRUE)
                    /\ UNCHANGED <<lastResult, activeScans>>
    /\ UNCHANGED <<auxVars, disk, frVars, flagVars, usageTracker, pollVars,
                   provisionedRefs, filesFoundOnDisk, LibraryElementssToDelete,
                   folderID, fsQuiet, prevRun>>

\* walkDisk: under the lock, the tracker built by the scan replaces the reader's,
\* and walkDisk returns nil; its locals are gone
InstallTracker ==
    /\ pc = "install"
    /\ usageTracker' = tracker
    /\ pc' = "select"
    /\ lastResult' = "ok"
    /\ activeScans' = activeScans - 1
    /\ provisionedRefs' = EmptyMap
    /\ filesFoundOnDisk' = {}
    /\ folderID' = 0
    /\ tracker' = newUsageTracker
    /\ calls' = EmptyBag
    /\ classified' = Unclassified
    /\ scanRestricted' = FALSE
    /\ prevRun' = "none"
    /\ failedOps' = [failedOps EXCEPT !.prev = {}]
    /\ UNCHANGED <<auxVars, envVars, storeVars, frVars, dbWriteAccessRestricted, pollVars,
                   LibraryElementssToDelete, todo, scanClean, fsQuiet, savedContent>>

Next ==
    \/ Tick
    \/ Cancel
    \/ PollReturn
    \/ FsChange
    \/ \E restrict \in BOOLEAN : changeWritePermissions(restrict)
    \/ WalkDiskBegin
    \/ HandleMissing
    \/ HandleMissingReturn
    \/ GetFolder
    \/ StoreInFolder
    \/ StoreFromFileStructure
    \/ InstallTracker

Spec == Init /\ [][Next]_vars

(***************************************************************************)
(* Properties of a scan.  At pc = "install" walkDisk has made every call of *)
(* the scan and has only its tracker left to install.                       *)
(***************************************************************************)
\* how many logged calls satisfy P
CallCount(P(_)) ==
    LET S == {c \in DOMAIN calls : P(c)}
    IN  IF S = {} THEN 0 ELSE BagCardinality([c \in S |-> calls[c]])

IsWrite(c) == c.op \in {"save", "delete", "unprovision"}
IsSaveOf(f, c) == c.op = "save" /\ c.path = f
Deletes(id) == CallCount(LAMBDA c : c = DeleteCall(id))
Unprovisions(id) == CallCount(LAMBDA c : c = UnprovisionCall(id))
RefPaths == {r.path : r \in GetProvisionedLibraryElementsData(provisioning, Cfg.Name)}
MissingPaths == {p \in DOMAIN provisionedRefs : p \notin filesFoundOnDisk}
Wrote(f) == classified[f] \in {"saved", "saveFailed", "suppressed"}

C2_MissingHandledByMode ==
    /\ \A p \in DOMAIN provisionedRefs :
        LET id == provisionedRefs[p].id
            due == IF p \in MissingPaths /\ id \notin LibraryElementssToDelete
                   THEN 1 ELSE 0
        IN  IF Cfg.DisableDeletion
            THEN Unprovisions(id) = due /\ Deletes(id) = 0
            ELSE Deletes(id) = due /\ Unprovisions(id) = 0
    /\ \A c \in DOMAIN calls :
        c.op \in {"delete", "unprovision"} =>
            \E p \in MissingPaths : provisionedRefs[p].id = c.id

C2_Witness ==
    /\ pc \in {"getFolder", "store", "install"}
    /\ Cfg.DisableDeletion
    /\ MissingPaths # {}
    /\ DOMAIN provisionedRefs \cap filesFoundOnDisk # {}
    /\ \A p \in MissingPaths : Unprovisions(provisionedRefs[p].id) = 1

\* C3: a scan that began with the write-access flag set, the flag set ever
\* since, has issued no save call and no delete call.
C3_RestrictedScanWritesNothing ==
    scanRestricted => CallCount(LAMBDA c : c.op \in {"save", "delete"}) = 0

\* the folder id of flat mode: none for an empty folder name, else the folder's
FlatFolderId ==
    IF Cfg.Folder = <<>> THEN 0
    ELSE (CHOOSE d \in dashboards : d.slug = SlugifyTitle(Cfg.Folder)).id

\* C4: deletion enabled, and a scan with no failed call or load and no
\* suppressed save has made all its calls: the provisioned paths of the source
\* are the files found on disk; in flat mode a file found without a ref got
\* exactly one save call, with the flat-mode folder id; a ref whose file is
\* missing got exactly one delete call for its record id.
C4_Converges ==
    (pc = "install" /\ ~Cfg.DisableDeletion /\ scanClean) =>
        /\ RefPaths = filesFoundOnDisk
        /\ ~FoldersFromFilesStructure =>
            \A f \in filesFoundOnDisk \ DOMAIN provisionedRefs :
                /\ CallCount(LAMBDA c : IsSaveOf(f, c)) = 1
                /\ CallCount(LAMBDA c : IsSaveOf(f, c) /\ c.folderId = FlatFolderId) = 1
        /\ \A p \in MissingPaths : Deletes(provisionedRefs[p].id) = 1

C4_Witness ==
    /\ pc = "install" /\ ~Cfg.DisableDeletion /\ scanClean
    /\ ~FoldersFromFilesStructure /\ Cfg.Folder # <<>>
    /\ RefPaths = filesFoundOnDisk
    /\ MissingPaths # {}
    /\ filesFoundOnDisk \ DOMAIN provisionedRefs # {}

\* C5: when a scan loads a file, the file is classified up to date exactly when
\* the store holds a ref of the source for its path whose checksum is the
\* checksum of the bytes now in the file; no save call is issued for a file
\* classified up to date; and a file unchanged since its last successful save
\* is classified up to date.
C5_Step(f) ==
    LET loaded == classified[f] = "none"
                    /\ classified'[f] \notin {"none", "loadFailed", "symlinkErr"}
        ref == \E r \in GetProvisionedLibraryElementsData(provisioning, Cfg.Name) :
                    r.path = f /\ r.checkSum = Md5Sum(disk[f])
    IN  loaded =>
            /\ classified'[f] = "upToDate" <=> ref
            /\ classified'[f] = "upToDate" =>
                    {c \in DOMAIN calls' : IsSaveOf(f, c)} = {}
            /\ (savedContent[f] # 0 /\ savedContent[f] = disk[f]) =>
                    classified'[f] = "upToDate"

C5_UpToDateIffChecksum == [][\A f \in Files : C5_Step(f)]_vars

C5_Witness ==
    /\ pc = "install"
    /\ \E f \in Files : classified[f] = "upToDate" /\ savedContent[f] = disk[f]
    /\ \E f \in DOMAIN provisionedRefs : classified[f] = "saved"

\* C10: at most one walkDisk invocation of the source is in progress.
C10_OneScanAtATime == activeScans <= 1

C10_Witness == activeScans = 1 /\ tickPending /\ pc = "install"

(***************************************************************************)
(* The walk and the mirrored placement over arbitrary trees: walkDisk's     *)
(* filepath.Walk and storeLibraryElementsInFoldersFromFileStructure's       *)
(* folder resolution, with a store that never fails.                        *)
(***************************************************************************)
N_ajson == <<"a", "j", "s", "o", "n">>

\* the files a tree may hold, relative to its root: plain and hidden
\* directories, a directory named like the root, one whose name ends in .json,
\* a file named .json, a file without the extension
CandidateFiles ==
    {<<N_a_json>>, <<N_ajson>>, <<DotJson>>,
     <<N_sub, N_b_json>>, <<N_sub, N_defs, N_a_json>>, <<N_sub, N_hid, N_c_json>>,
     <<N_hid, N_c_json>>, <<N_hid, N_sub, N_b_json>>,
     <<N_b_json, N_a_json>>}

RootNames == {N_defs, N_hid}

\* the tree with root r holding the files rels and the directories above them
TreeOf(r, rels) ==
    {[path |-> r \o rel, isDir |-> FALSE] : rel \in rels}
        \cup UNION {{[path |-> r \o SubSeq(rel, 1, k), isDir |-> TRUE] :
                        k \in 0..(Len(rel) - 1)} : rel \in rels}
        \cup {[path |-> r, isDir |-> TRUE]}

InitWalk ==
    /\ InitReader(NoFiles, [Name |-> "A", DisableDeletion |-> FALSE, Folder |-> <<>>,
                            mirrored |-> TRUE])
    /\ NoConfig
    /\ \E name \in RootNames : \E rels \in SUBSET CandidateFiles :
        /\ rootPath = <<name>>
        /\ tree = TreeOf(<<name>>, rels)
    /\ folderOf = EmptyMap

\* walkDisk: filepath.Walk(resolvedPath, createWalkFn(filesFoundOnDisk))
WalkTree ==
    /\ pc = "select"
    /\ pc' = "store"
    /\ filesFoundOnDisk' = Walk(tree, [path |-> rootPath, isDir |-> TRUE])
    /\ todo' = filesFoundOnDisk'
    /\ UNCHANGED <<disk, events, provisioning, dashboards, nextId, frVars, flagVars,
                   usageTracker, pollVars, activeScans, provisionedRefs,
                   LibraryElementssToDelete, folderID, tracker, calls, classified,
                   lastResult, scanClean, histVars, walkVars, configVars>>

\* storeLibraryElementsInFoldersFromFileStructure: one round of the loop over a
\* tree whose files are all new and load, with a store that answers every call:
\* the folder is resolved and saveLibraryElements issues the save
ResolveFolderOf ==
    /\ pc = "store"
    /\ \E f \in todo :
        LET folderName == FolderNameOf(f, rootPath)
            g == getOrCreateFolderID(folderName, "ok")
        IN  /\ folderOf' = (f :> [name |-> folderName, id |-> g.id]) @@ folderOf
            /\ dashboards' = g.dashboards
            /\ nextId' = g.nextId
            /\ calls' = calls (+) g.calls (+) SetToBag({SaveCall(0, f, g.id, <<>>)})
            /\ todo' = todo \ {f}
    /\ UNCHANGED <<disk, events, provisioning, frVars, flagVars, usageTracker, pc,
                   pollVars, activeScans, provisionedRefs, filesFoundOnDisk,
                   LibraryElementssToDelete, folderID, tracker, classified,
                   lastResult, scanClean, histVars, tree, rootPath, configVars>>

NextWalk ==
    \/ WalkTree
    \/ ResolveFolderOf

SpecWalk == InitWalk /\ [][NextWalk]_vars

\* the path of a file of the tree below the root
Rel(f) == SubSeq(f, Len(rootPath) + 1, Len(f))

\* the folder placement of file f: the name resolved and the id handed to the save
PlacedAs(f, name, id) ==
    /\ folderOf[f] = [name |-> name, id |-> id]
    /\ \A c \in DOMAIN calls : IsSaveOf(f, c) => c.folderId = id

C6_ByParent ==
    \A f \in DOMAIN folderOf :
        IF Len(Rel(f)) = 1
        THEN PlacedAs(f, <<>>, 0) /\ folderOf[f].name # Base(rootPath)
        ELSE PlacedAs(f, Base(Dir(f)), folderOf[f].id)

\* C6 (as stated): the folder name is the name of the directory that holds the
\* file, the empty name with folder id 0 for a file in the root, and the name
\* of the root directory is never a folder name.
C6_RootNameNeverUsed ==
    /\ C6_ByParent
    /\ \A f \in DOMAIN folderOf : folderOf[f].name # Base(rootPath)
    /\ GetFolderCall(Base(rootPath)) \notin DOMAIN calls

\* C6 (amended): in mirrored mode the folder name resolved for a file is the
\* name of the directory that holds it when that directory is not the root, and
\* the empty name, with folder id 0, when the file lies in the root; a file in
\* the root is never placed in a folder named like the root, and the name of
\* the root is a folder name only for files held by a directory below the root
\* that has the root's name.
C6_MirroredFolderName ==
    /\ C6_ByParent
    /\ \A f \in DOMAIN folderOf :
        folderOf[f].name = Base(rootPath) => Len(Rel(f)) > 1 /\ Base(Dir(f)) = Base(rootPath)
    /\ GetFolderCall(Base(rootPath)) \in DOMAIN calls
        => \E f \in DOMAIN folderOf : Len(Rel(f)) > 1 /\ Base(Dir(f)) = Base(rootPath)

C6_Witness ==
    /\ todo = {}
    /\ \E f \in DOMAIN folderOf : Len(Rel(f)) = 1
    /\ \E f \in DOMAIN folderOf : Len(Rel(f)) = 2 /\ folderOf[f].name = N_sub
    /\ \E f \in DOMAIN folderOf : Len(Rel(f)) = 3 /\ folderOf[f].name = Base(rootPath)

\* the files of the tree named *.json with no directory named .* above them,
\* the root included
Walkable ==
    {e.path : e \in {x \in tree :
        /\ ~x.isDir
        /\ HasSuffix(Base(x.path), DotJson)
        /\ \A k \in 1..(Len(x.path) - 1) : ~HasPrefix(x.path[k], Dot)}}

\* C7: the files found by the walk are exactly the files of the tree whose name
\* ends in .json and that have no directory whose name starts with "." above
\* them, at or below the root; no directory is among them, and no save is
\* issued for a file outside that set.
C7_WalkSkipsHidden ==
    /\ pc = "store" =>
        /\ filesFoundOnDisk = Walkable
        /\ \A e \in tree : e.isDir => e.path \notin filesFoundOnDisk
    /\ \A c \in DOMAIN calls : c.op = "save" => c.path \in Walkable

C7_Witness ==
    /\ pc = "store"
    /\ filesFoundOnDisk # {}
    /\ \E e \in tree : ~e.isDir /\ HasSuffix(Base(e.path), DotJson)
                        /\ e.path \notin filesFoundOnDisk
    /\ \E e \in tree : e.isDir /\ HasSuffix(Base(e.path), DotJson)
    /\ \E e \in tree : ~e.isDir /\ ~HasSuffix(Base(e.path), DotJson)
    /\ todo = {}

(***************************************************************************)
(* The config reader: readConfig over the files of the provisioning         *)
(* directory, parseConfigs and mapToPanelElementsAsConfig.                  *)
(***************************************************************************)
MaxProviders == 2

N_a_yaml == <<"a", ".", "y", "a", "m", "l">>
N_a_txt == <<"a", ".", "t", "x", "t">>
N_b_yml == <<"b", ".", "y", "m", "l">>
DotYaml == <<".", "y", "a", "m", "l">>
DotYml == <<".", "y", "m", "l">>

\* the listings ioutil.ReadDir can return, sorted by file name
DirNames == {<<>>, <<N_a_yaml>>, <<N_a_txt>>, <<N_a_yaml, N_b_yml>>, <<N_a_txt, N_b_yml>>}

ProviderNames == {"A", "B"}
Provider(name) == [Name |-> name, Type |-> "", OrgID |-> 0, UpdateIntervalSeconds |-> 0]
ProviderLists ==
    UNION {[1..n -> {Provider(name) : name \in ProviderNames}] : n \in 0..MaxProviders}

\* what a file holds: whether it can be read, the apiVersion it declares (0 when
\* it declares none), whether it unmarshals into configV0, and its providers
Unreadable == [readable |-> FALSE, apiVersion |-> 0, wellTyped |-> FALSE, Providers |-> <<>>]
ConfigContents ==
    {Unreadable} \cup [readable : {TRUE}, apiVersion : {0, 1}, wellTyped : BOOLEAN,
                       Providers : ProviderLists]

\* configV0.mapToPanelElementsAsConfig: the loop from entry i on
RECURSIVE mapLoop(_, _, _, _)
mapLoop(Providers, i, seen, r) ==
    IF i > Len(Providers) THEN [configs |-> r, err |-> Nil]
    ELSE LET v == Providers[i]
         IN  IF v.Name \in seen
             THEN [configs |-> <<>>, err |-> Err("notUnique", v.Name, <<>>)]
             ELSE mapLoop(Providers, i + 1, seen \cup {v.Name}, Append(r, v))

mapToPanelElementsAsConfig_unchecked(Providers) == [configs |-> Providers, err |-> Nil]
mapToPanelElementsAsConfig(Providers) == mapLoop(Providers, 1, {}, <<>>)

\* configReader.parseConfigs
parseConfigs(file) ==
    IF ~file.readable THEN [configs |-> <<>>, err |-> Err("readFile", "", <<>>)]
    ELSE IF file.apiVersion > 0
         THEN IF ~file.wellTyped
              THEN [configs |-> <<>>, err |-> Err("unmarshal", "", <<>>)]
              ELSE mapToPanelElementsAsConfig(file.Providers)
         ELSE [configs |-> <<>>, err |-> Nil]

InitConfig ==
    /\ InitReader(NoFiles, [Name |-> "A", DisableDeletion |-> FALSE, Folder |-> <<>>,
                            mirrored |-> FALSE])
    /\ NoWalk
    /\ \E names \in DirNames : \E contents \in [1..Len(names) -> ConfigContents] :
        cfgFiles = [i \in 1..Len(names) |->
                        [name |-> names[i]] @@ contents[i]]
    /\ crPc = "readDir"
    /\ crNext = 1
    /\ panels = <<>>
    /\ lastParse = NoParse
    /\ crResult = [configs |-> <<>>, err |-> Nil]

crUnchanged ==
    UNCHANGED <<envVars, storeVars, frVars, flagVars, usageTracker, pc, pollVars,
                activeScans, scanVars, calls, classified, lastResult, scanClean,
                histVars, walkVars, cfgFiles>>

\* readConfig: ioutil.ReadDir(cr.path)
ReadDir ==
    /\ crPc = "readDir"
    /\ \E readable \in BOOLEAN :
        IF readable
        THEN crPc' = "files" /\ UNCHANGED crResult
        ELSE crPc' = "done" /\ crResult' = [configs |-> panels, err |-> Nil]
    /\ UNCHANGED <<crNext, panels, lastParse>>
    /\ crUnchanged

\* readConfig: one round of the loop over the files
ReadConfigFile ==
    /\ crPc = "files"
    /\ crNext <= Len(cfgFiles)
    /\ LET file == cfgFiles[crNext]
           r == parseConfigs(file)
       IN  IF ~HasSuffix(file.name, DotYaml) /\ ~HasSuffix(file.name, DotYml)
           THEN /\ crNext' = crNext + 1
                /\ UNCHANGED <<crPc, panels, lastParse, crResult>>
           ELSE /\ lastParse' = [file |-> crNext, configs |-> r.configs, err |-> r.err]
                /\ IF r.err # Nil
                   THEN /\ crPc' = "done"
                        /\ crResult' = [configs |-> <<>>,
                                        err |-> Err("couldNotParse", r.err.name, file.name)]
                        /\ UNCHANGED <<crNext, panels>>
                   ELSE /\ crNext' = crNext + 1
                        /\ panels' = IF Len(r.configs) > 0 THEN panels \o r.configs
                                     ELSE panels
                        /\ UNCHANGED <<crPc, crResult>>
    /\ crUnchanged

\* readConfig: the defaults of one panel
Defaults(panel) ==
    [panel EXCEPT !.OrgID = IF @ = 0 THEN 1 ELSE @,
                  !.Type = IF @ = "" THEN "file" ELSE @,
                  !.UpdateIntervalSeconds = IF @ = 0 THEN 10 ELSE @]

\* readConfig: the loop over the panels, with the organisations orgs in the store
ReadConfigReturn ==
    /\ crPc = "files"
    /\ crNext > Len(cfgFiles)
    /\ \E orgs \in SUBSET {1} :
        LET missing == {i \in 1..Len(panels) : Defaults(panels[i]).OrgID \notin orgs}
            first == CHOOSE i \in missing : \A j \in missing : i <= j
        IN  crResult' = IF missing # {}
                        THEN [configs |-> <<>>,
                              err |-> Err("orgCheck", panels[first].Name, <<>>)]
                        ELSE [configs |-> [i \in 1..Len(panels) |-> Defaults(panels[i])],
                              err |-> Nil]
    /\ crPc' = "done"
    /\ UNCHANGED <<crNext, panels, lastParse>>
    /\ crUnchanged

NextConfig ==
    \/ ReadDir
    \/ ReadConfigFile
    \/ ReadConfigReturn

SpecConfig == InitConfig /\ [][NextConfig]_vars

\* the entries of a provider list that repeat the name of an earlier entry
Repeats(Providers) ==
    {j \in 1..Len(Providers) : \E i \in 1..(j - 1) : Providers[i].Name = Providers[j].Name}
FirstRepeat(Providers) ==
    Providers[CHOOSE j \in Repeats(Providers) : \A k \in Repeats(Providers) : j <= k].Name

\* the file parsed last holds a provider list with two entries of one name
ParsedRepeats ==
    /\ lastParse.file # 0
    /\ cfgFiles[lastParse.file].readable
    /\ cfgFiles[lastParse.file].wellTyped
    /\ Repeats(cfgFiles[lastParse.file].Providers) # {}

FailedNamingRepeat ==
    /\ lastParse.err = Err("notUnique", FirstRepeat(cfgFiles[lastParse.file].Providers), <<>>)
    /\ lastParse.configs = <<>>
    /\ crPc = "done"
    /\ crResult.configs = <<>>
    /\ crResult.err = Err("couldNotParse",
                          FirstRepeat(cfgFiles[lastParse.file].Providers),
                          cfgFiles[lastParse.file].name)

\* C8 (as stated): parsing a config file whose provider list holds two entries
\* of one name fails with an error that names the repeated name, and yields no
\* source definition of that file.
C8_DuplicateNameFails == ParsedRepeats => FailedNamingRepeat

\* C8 (amended): parsing a config file that declares an apiVersion above 0 and
\* whose provider list holds two entries of one name fails with an error that
\* names the repeated name, and yields no source definition of that file; a
\* file that declares no apiVersion, or apiVersion 0, yields no source
\* definition and no error, whatever its provider list holds.
C8_DuplicateNameFailsFromV1 ==
    ParsedRepeats =>
        IF cfgFiles[lastParse.file].apiVersion > 0
        THEN FailedNamingRepeat
        ELSE lastParse.err = Nil /\ lastParse.configs = <<>>

C8_Witness ==
    /\ ParsedRepeats
    /\ cfgFiles[lastParse.file].apiVersion > 0
    /\ lastParse.file = 2
    /\ Len(panels) > 0
    /\ FailedNamingRepeat

\* C9: a list of source definitions that readConfig returns without error holds
\* no two sources of one name, over all the config files of the directory.
C9_NamesUniqueAcrossFiles ==
    crPc = "done" /\ crResult.err = Nil =>
        \A i, j \in 1..Len(crResult.configs) :
            crResult.configs[i].Name = crResult.configs[j].Name => i = j

(***************************************************************************)
(* Properties of the poll loop, of failures and of the store.               *)
(***************************************************************************)
\* pollChanges takes the ticker case of its select and calls walkDisk
ScanBegins == tickPending /\ ~tickPending'

\* C11: once ctx.Done() is ready no walkDisk invocation begins, a tick pending
\* at that moment included.
C11_NoScanAfterCancel == [][cancelled => ~ScanBegins]_vars

\* walkDisk returns an error in this step
ScanFails ==
    /\ ScanBegins \/ pc \in {"getFolder", "store"}
    /\ pc' = "select"
    /\ lastResult' = "error"

\* C12: the tracker a reader gets from getUsageTracker changes only when a scan
\* that has visited every file it found installs the tracker it built and
\* returns nil; the steps that fill a scan's tracker and the steps in which
\* walkDisk returns an error leave it as it was.
C12_TrackerStep ==
    /\ usageTracker' # usageTracker =>
        /\ pc = "install"
        /\ todo = {}
        /\ \A f \in filesFoundOnDisk : classified[f] # "none"
        /\ usageTracker' = tracker
        /\ lastResult' = "ok"
    /\ ScanFails => usageTracker' = usageTracker
    /\ tracker' # tracker /\ pc # "install" => usageTracker' = usageTracker

C12_TrackerSwappedWhole == [][C12_TrackerStep]_vars

\* a scan is filling a tracker while readers get the one an earlier scan installed
C12_Witness ==
    /\ pc = "store"
    /\ usageTracker # newUsageTracker
    /\ tracker # newUsageTracker
    /\ tracker # usageTracker

\* walkDisk returns the error of os.Stat, of the fetch of the refs or of the walk
StructuralFailure == ScanBegins /\ pc' = "select"

\* C13: a scan that fails at the stat of the root, at the fetch of the
\* provisioned refs or at the walk returns the error with no delete,
\* unprovision, save or folder-create call issued, the store and the reader's
\* usage tracker as they were.
C13_Step ==
    StructuralFailure =>
        /\ lastResult' = "error"
        /\ calls' = EmptyBag
        /\ provisioning' = provisioning
        /\ dashboards' = dashboards
        /\ usageTracker' = usageTracker
        /\ activeScans' = activeScans

C13_StructuralFailureDoesNothing == [][C13_Step]_vars

\* a scan has failed structurally with a tracker installed and a delete due
C13_Witness ==
    /\ pc = "select"
    /\ lastResult = "error"
    /\ calls = EmptyBag
    /\ usageTracker # newUsageTracker
    /\ \E r \in provisioning : disk[r.path] = 0

\* the scan classifies file f in this step, as one of the classes cls
Classifies(f, cls) == classified[f] = "none" /\ classified'[f] \in cls

\* C14: a file that a scan fails to read or parse gets no save call, and no
\* delete or unprovision call is issued for the record of its ref, which stays
\* in the store as the scan found it; the step in which a file fails to load,
\* or in which its save call fails, does not end the scan but goes on to the
\* files not yet visited; and a scan that has come to its end has visited
\* every file it found.
C14_Step ==
    /\ \A f \in Files :
        classified'[f] = "loadFailed" =>
            /\ {c \in DOMAIN calls' : IsSaveOf(f, c)} = {}
            /\ f \in DOMAIN provisionedRefs' =>
                /\ provisionedRefs'[f] \in provisioning'
                /\ DeleteCall(provisionedRefs'[f].id) \notin DOMAIN calls'
                /\ UnprovisionCall(provisionedRefs'[f].id) \notin DOMAIN calls'
    /\ \A f \in Files :
        Classifies(f, {"loadFailed", "saveFailed"}) =>
            /\ todo' = todo \ {f}
            /\ pc' = IF todo' = {} THEN "install" ELSE "store"
            /\ lastResult' = lastResult
            /\ activeScans' = activeScans
    /\ pc' = "install" => \A f \in filesFoundOnDisk' : classified'[f] # "none"

C14_FileFailureIsLocal == [][C14_Step]_vars

\* a scan has ended in which a provisioned file failed to load and another
\* file was saved
C14_Witness ==
    /\ pc = "install"
    /\ \E f \in DOMAIN provisionedRefs : classified[f] = "loadFailed"
    /\ \E f \in Files : classified[f] = "saved"

\* C15: in mirrored mode a failure to resolve or create the folder of one file
\* does not end the scan: every step of the store loop goes on to the files not
\* yet visited or to the installation of the tracker, and walkDisk returns no
\* error from it.
C15_FolderFailureIsPerItem ==
    [][FoldersFromFilesStructure /\ pc = "store" =>
            pc' \in {"store", "install"} /\ lastResult' = lastResult]_vars

(***************************************************************************)
(* The poll loop with a ticker that keeps firing and a scan that keeps      *)
(* taking its next step.  The failures and the changes of the environment   *)
(* are finitely many, so the calls of the store succeed from some scan on.  *)
(***************************************************************************)
ScanStep ==
    \/ WalkDiskBegin
    \/ HandleMissing
    \/ HandleMissingReturn
    \/ GetFolder
    \/ StoreInFolder
    \/ StoreFromFileStructure
    \/ InstallTracker

SpecLive == Spec /\ WF_vars(Tick) /\ WF_vars(ScanStep)

\* the call that failed in the scan before has been issued in this scan
Reissued(o) ==
    IF o.op = "save"
    THEN CallCount(LAMBDA c : IsSaveOf(o.path, c)) = 1
    ELSE Call(o.op, o.id, <<>>, 0, <<>>, <<>>) \in DOMAIN calls

\* no call is issued twice in one scan for one file or one missing record
OncePerScan ==
    /\ \A f \in Files : CallCount(LAMBDA c : IsSaveOf(f, c)) <= 1
    /\ \A c \in DOMAIN calls : c.op \in {"delete", "unprovision"} => calls[c] = 1
    /\ \A id \in {c.id : c \in DOMAIN calls} : Deletes(id) + Unprovisions(id) <= 1

\* the store holds a ref of the source for file f with the checksum of its bytes
Synced(f) ==
    \E r \in GetProvisionedLibraryElementsData(provisioning, Cfg.Name) :
        r.path = f /\ r.checkSum = Md5Sum(disk[f])

NoSaveDue(f) == classified[f] \in {"symlinkErr", "loadFailed", "suppressed"}

C16_Retried ==
    /\ OncePerScan
    /\ pc = "install" =>
        \A o \in failedOps.prev :
            IF o.op = "save"
            THEN /\ classified[o.path] # "upToDate"
                 /\ ~NoSaveDue(o.path) => Reissued(o)
                 /\ NoSaveDue(o.path) => CallCount(LAMBDA c : IsSaveOf(o.path, c)) = 0
            ELSE Reissued(o)

RefsOf(name, f) == {r \in GetProvisionedLibraryElementsData(provisioning, name) : r.path = f}

\* C17: whatever scans, file additions, changes and removals, failed store calls
\* and flag changes have happened, the store holds at most one provisioned ref
\* per source name and external path (a save that carries the id of an existing
\* record replacing that record's ref).
C17_OneRefPerPath ==
    \A r1 \in provisioning : \A r2 \in provisioning :
        (r1.name = r2.name /\ r1.path = r2.path) => r1 = r2

\* a scan has saved a changed file that had a ref, with the id of that ref, and
\* the store holds one ref for it, with the new checksum
C17_Witness ==
    /\ pc = "install"
    /\ \E f \in DOMAIN provisionedRefs :
        /\ classified[f] = "saved"
        /\ SaveCall(provisionedRefs[f].id, f, folderID, Md5Sum(disk[f])) \in DOMAIN calls
        /\ provisionedRefs[f].id # 0
        /\ provisionedRefs[f].checkSum # Md5Sum(disk[f])
        /\ RefsOf(Cfg.Name, f) =
            {[id |-> provisionedRefs[f].id, path |-> f, name |-> Cfg.Name,
              checkSum |-> Md5Sum(disk[f])]}


(***************************************************************************)
(* A reader started over a store that holds refs of an earlier run.         *)
(***************************************************************************)
\* the rows an earlier run of the source left in the store, one per file
StoredRows ==
    {[id |-> 1, path |-> F_a, name |-> "A", checkSum |-> Md5Sum(1)],
     [id |-> 2, path |-> F_b, name |-> "A", checkSum |-> Md5Sum(1)]}

InitStored ==
    /\ \E d \in [Files -> 0..NumContents] : \E c \in Configs :
        InitReaderOn(d, c, StoredRows, {}, 3)
    /\ NoWalk
    /\ NoConfig

SpecStored == InitStored /\ [][Next]_vars

(***************************************************************************)
(* C18                                                                      *)
(***************************************************************************)
\* the call the deletion pass makes for record id under the reader's mode
MissingCall(id) == Call(MissingOp(Cfg.DisableDeletion), id, <<>>, 0, <<>>, <<>>)

\* the deletion pass is over and the scan has not returned
PastDeletionPass == pc \in {"getFolder", "store", "install"}

\* every ref whose path is missing from disk has had its call, once
AllMissingCalled ==
    \A p \in DOMAIN provisionedRefs \ filesFoundOnDisk :
        /\ MissingCall(provisionedRefs[p].id) \in DOMAIN calls
        /\ calls[MissingCall(provisionedRefs[p].id)] = 1

\* a step of the deletion pass does not end the scan, and the pass ends by
\* entering the save pass with every file found on disk still to visit
C18_Step ==
    pc = "handleMissing" =>
        /\ pc' \in {"handleMissing", "getFolder", "store", "install"}
        /\ lastResult' = lastResult
        /\ activeScans' = activeScans
        /\ pc' # "handleMissing" => LibraryElementssToDelete = {} /\ todo' = filesFoundOnDisk

\* C18: a delete or unprovision call that fails does not abort the deletion
\* pass: the pass makes the call for every previously provisioned path missing
\* from disk, whichever of them fail, and the save pass of the scan follows it.
C18_MissingFailureIsLocal ==
    /\ [](PastDeletionPass => AllMissingCalled)
    /\ [][C18_Step]_vars

\* two provisioned paths are missing, the call for one failed, the call for the
\* other was made and took its ref away, and the save pass has run
C18_Witness ==
    /\ pc = "install"
    /\ \E o \in failedOps.cur : \E q \in DOMAIN provisionedRefs \ filesFoundOnDisk :
        /\ o.op \in {"delete", "unprovision"}
        /\ q # o.path
        /\ MissingCall(o.id) \in DOMAIN calls
        /\ MissingCall(provisionedRefs[q].id) \in DOMAIN calls
        /\ \E r \in provisioning : r.path = o.path
        /\ ~\E r \in provisioning : r.path = q


(***************************************************************************)
(* C19                                                                      *)
(***************************************************************************)
\* the record id the provisioning state of a path determines
IdByProvisioning(path) ==
    IF path \in DOMAIN provisionedRefs THEN provisionedRefs[path].id ELSE 0

\* C19: every save call of a scan carries the record id of the ref the scan read
\* for the file's path, and 0 when the scan read no ref for it, whatever numeric
\* id the file's document holds.
C19_SaveIdFromProvisioning ==
    \A c \in DOMAIN calls :
        c.op = "save" => c.id = IdByProvisioning(c.path)

\* a scan has saved two files whose documents hold a numeric id: one that had a
\* ref, with the id of the ref, and one that had none, with id 0
C19_Witness ==
    \E f \in Files : \E h \in Files :
        /\ JsonOf(disk[f]).id # 0
        /\ JsonOf(disk[h]).id # 0
        /\ f \in DOMAIN provisionedRefs
        /\ h \notin DOMAIN provisionedRefs
        /\ provisionedRefs[f].id \notin {0, JsonOf(disk[f]).id}
        /\ SaveCall(provisionedRefs[f].id, f, folderID, Md5Sum(disk[f])) \in DOMAIN calls
        /\ SaveCall(0, h, folderID, Md5Sum(disk[h])) \in DOMAIN calls
        /\ classified[f] = "saved"
        /\ classified[h] = "saved"


(***************************************************************************)
(* A reader started over a store that may hold a record under the slug of   *)
(* the folder name it resolves.                                             *)
(***************************************************************************)
\* the folder name a reader with config c resolves
ResolvedName(c) == IF c.mirrored THEN N_sub ELSE c.Folder
FolderNames == {N_Gen, N_sub}

\* a record the store holds from before the reader, a folder or not
OldRecord(slug, isFolder) == [slug |-> slug, id |-> 9, isFolder |-> isFolder]

\* each file is absent or holds the first content when the reader starts
InitFolders ==
    /\ \E d \in [Files -> {0, 1}] :
       \E c \in {k \in Configs : ResolvedName(k) # <<>>} :
       \E recs \in {{}} \cup {{OldRecord(SlugifyTitle(ResolvedName(c)), b)} : b \in BOOLEAN} :
        InitReaderOn(d, c, {}, recs, 1)
    /\ NoWalk
    /\ NoConfig

SpecFolders == InitFolders /\ [][Next]_vars

(***************************************************************************)
(* C20                                                                      *)
(***************************************************************************)
\* the records the lookup of a folder name finds
Hits(name) == {d \in dashboards : d.slug = SlugifyTitle(name)}

\* what the lookup of name reports when it ends as out says
Report(name, out) ==
    IF out = "lookupErr" THEN "error"
    ELSE IF Hits(name) = {} THEN "notFound"
    ELSE "found"

\* a resolution of name: create is called exactly when the lookup reports not
\* found; a folder found is returned; a record found that is no folder is an
\* error; any other lookup error is returned
Resolves(name, out) ==
    LET g == getOrCreateFolderID(name, out)
        rep == Report(name, out)
        creates == CreateFolderCall(name) \in DOMAIN g.calls
    IN  /\ GetFolderCall(name) \in DOMAIN g.calls
        /\ creates <=> rep = "notFound"
        /\ ~creates => g.dashboards = dashboards /\ g.nextId = nextId
        /\ rep = "error" => g.err = "lookupErr" /\ g.id = 0
        /\ rep = "found" =>
            \E d \in Hits(name) :
                IF d.isFolder THEN g.err = "nil" /\ g.id = d.id
                ELSE g.err \notin {"nil", "ErrFolderNameMissing"} /\ g.id = 0

\* the step has made call c
Issues(c) == CopiesIn(c, calls') > CopiesIn(c, calls)

\* a step of the reader that looks a folder name up: it calls create only if the
\* store holds no record under the slug, it ends the scan with an error if the
\* record found is no folder, and it adds a record to the store only by a create
C20_Step ==
    /\ \A name \in FolderNames :
        /\ Issues(CreateFolderCall(name)) => Issues(GetFolderCall(name)) /\ Hits(name) = {}
        /\ (Issues(GetFolderCall(name)) /\ Hits(name) # {}) =>
            /\ dashboards' = dashboards
            /\ (\E d \in Hits(name) : ~d.isFolder) => pc' = "select" /\ lastResult' = "error"
            /\ (\E d \in Hits(name) : d.isFolder) =>
                \A c \in DOMAIN calls' :
                    (c.op = "save" /\ Issues(c)) => \E d \in Hits(name) : c.folderId = d.id
    /\ dashboards' # dashboards =>
        \E name \in FolderNames :
            /\ Issues(CreateFolderCall(name))
            /\ \E d \in dashboards' :
                /\ d.slug = SlugifyTitle(name) /\ d.isFolder
                /\ dashboards' = dashboards \cup {d}

\* the store holds at most one record under the slug of a folder name
OneRecordPerSlug == \A name \in FolderNames : Cardinality(Hits(name)) <= 1

\* C20: resolving a non-empty folder name calls create if and only if the lookup
\* reports that no record has the slug; a folder found is returned with its id
\* and no create, a record found that is no folder gives an error and no create,
\* any other lookup error is returned with no create.  With created folders
\* found by later lookups, however often a name is resolved, the store never
\* holds two records under its slug: the folder is created at most once.
C20_CreateIffNotFound ==
    /\ [](\A name \in FolderNames : \A out \in {"ok", "lookupErr", "createErr"} :
            Resolves(name, out))
    /\ []OneRecordPerSlug
    /\ [][C20_Step]_vars

\* a scan has looked up the folder that an earlier scan of the reader created,
\* found it, called no create and saved a file into it
C20_Witness ==
    \E name \in FolderNames : \E d \in Hits(name) :
        /\ d.isFolder
        /\ d # OldRecord(d.slug, TRUE)
        /\ GetFolderCall(name) \in DOMAIN calls
        /\ CreateFolderCall(name) \notin DOMAIN calls
        /\ \E c \in DOMAIN calls : c.op = "save" /\ c.folderId = d.id
        /\ pc = "install"


(***************************************************************************)
(* C21                                                                      *)
(***************************************************************************)
\* the store step visits file f and resolving its symlink fails
SymlinkFails(f) == Classifies(f, {"symlinkErr"})

\* C21: a file whose symlink resolution fails is still loaded and, if it loads,
\* is not up to date and write access is unrestricted, a save call is issued
\* for it in that step of the scan.
C21_Step ==
    \A f \in Files :
        (/\ SymlinkFails(f)
         /\ disk[f] \in ValidContents
         /\ ~upToDate(provisionedRefs, f, Md5Sum(disk[f]))
         /\ ~isDatabaseAccessRestricted)
            => \E c \in DOMAIN calls' : IsSaveOf(f, c) /\ Issues(c)
C21_SymlinkFailureNonFatal == [][C21_Step]_vars


(***************************************************************************)
(* C22                                                                      *)
(***************************************************************************)
\* the step makes a save call for file f
SaveIssued(f) == \E c \in DOMAIN calls' : IsSaveOf(f, c) /\ Issues(c)

\* the step visits file f, loads it and finds it not up to date
VisitsStale(f) ==
    /\ classified[f] = "none"
    /\ classified'[f] \in {"suppressed", "saveFailed", "saved"}

\* the step tracks the identity of file f in the scan's tracker
TracksIdentityOf(f) ==
    LET json == JsonOf(disk[f])
    IN  \E k \in {0} \cup {d.id : d \in dashboards'} :
            tracker' = track(tracker, [uid |-> json.uid,
                                       identity |-> [title |-> json.title, folderID |-> k]])

\* the flag as the step that visits a file reads it decides the save of that
\* file: no save call unless it is false, and a file visited while it is true
\* has its save suppressed and its identity tracked
C22_Step ==
    \A f \in Files :
        /\ SaveIssued(f) => ~dbWriteAccessRestricted
        /\ (VisitsStale(f) /\ dbWriteAccessRestricted) =>
            /\ classified'[f] = "suppressed"
            /\ ~SaveIssued(f)
            /\ TracksIdentityOf(f)
        /\ (VisitsStale(f) /\ ~dbWriteAccessRestricted) => SaveIssued(f)

\* C22: the write-access flag is read per file, when the file is about to be
\* persisted, not per scan: a save call is issued for a file only if the flag
\* is false at that read; a file visited after changeWritePermissions(true),
\* the flag still true, gets no save call in that scan, and its identity is
\* recorded in the scan's tracker all the same.
C22_FlagReadPerFile == [][C22_Step]_vars

\* within one scan of a flat-mode reader one file was saved, then the flag was
\* set and the other file's save was suppressed; the tracker counts both
C22_Witness ==
    /\ pc = "install"
    /\ ~FoldersFromFilesStructure
    /\ dbWriteAccessRestricted
    /\ ~scanRestricted
    /\ \E f \in Files : \E h \in Files :
        /\ classified[f] = "saved"
        /\ classified[h] = "suppressed"
        /\ CallCount(LAMBDA c : IsSaveOf(f, c)) = 1
        /\ CallCount(LAMBDA c : IsSaveOf(h, c)) = 0
        /\ JsonOf(disk[f]).title = JsonOf(disk[h]).title
        /\ tracker.titleUsage[[title |-> JsonOf(disk[h]).title, folderID |-> folderID]] = 2


(***************************************************************************)
(* C23                                                                      *)
(***************************************************************************)
\* the scan loaded file f: it was found up to date, or its save was suppressed,
\* failed or made
Loaded(f) == classified[f] \in {"upToDate", "suppressed", "saveFailed", "saved"}

\* the folder id the scan resolved for file f
FolderIdOf(f) ==
    IF ~FoldersFromFilesStructure THEN folderID
    ELSE IF FolderNameOf(f, Root) = <<>> THEN 0
    ELSE LET hits == {d \in dashboards : d.slug = SlugifyTitle(FolderNameOf(f, Root))}
         IN  IF hits = {} THEN 0 ELSE (CHOOSE d \in hits : TRUE).id

\* the identity of file f as the scan records it
IdentityOf(f) ==
    [uid |-> JsonOf(disk[f]).uid,
     identity |-> [title |-> JsonOf(disk[f]).title, folderID |-> FolderIdOf(f)]]

\* a tracker in which each file of the set is tracked once
RECURSIVE TrackedOnce(_)
TrackedOnce(files) ==
    IF files = {} THEN newUsageTracker
    ELSE LET f == CHOOSE g \in files : TRUE
         IN  track(TrackedOnce(files \ {f}), IdentityOf(f))

\* C23: the tracker a completed scan installs holds the identity of every file
\* the scan loaded exactly once, in flat and in mirrored mode, whether the file
\* was up to date, its save was suppressed, failed or made, and nothing else.
C23_TrackerCountsLoaded ==
    pc = "install" => tracker = TrackedOnce({f \in filesFoundOnDisk : Loaded(f)})


(***************************************************************************)
(* The usage tracker on its own: track called any number of times.          *)
(***************************************************************************)
\* number of track calls made on one tracker
MaxTracks == 258

\* the metadata track is called with: a uid and a title, or a title alone, in
\* one folder
TrackInputs ==
    {[uid |-> u, identity |-> [title |-> "t1", folderID |-> 0]] : u \in {"u1", ""}}

\* a fresh tracker, as walkDisk makes it, and no call made on it yet
InitTrack ==
    /\ \E c \in {k \in Configs : ~k.mirrored /\ k.Folder = <<>> /\ ~k.DisableDeletion} :
        InitReader(NoFiles, c)
    /\ NoWalk
    /\ NoConfig

\* usageTracker.track(pm); calls keeps the metadata of the calls made
TrackCall ==
    /\ BagCardinality(calls) < MaxTracks
    /\ \E pm \in TrackInputs :
        /\ tracker' = track(tracker, pm)
        /\ calls' = calls (+) SetToBag({pm})
    /\ UNCHANGED <<auxVars, envVars, storeVars, frVars, flagVars, usageTracker, pc,
                   pollVars, activeScans, provisionedRefs, filesFoundOnDisk,
                   LibraryElementssToDelete, todo, folderID, classified, lastResult,
                   scanClean, histVars>>

NextTrack == TrackCall

SpecTrack == InitTrack /\ [][NextTrack]_vars

(***************************************************************************)
(* C24                                                                      *)
(***************************************************************************)
\* the occurrence count a counter map holds for key k
CountOf(m, k) == IF k \in DOMAIN m THEN m[k] ELSE 0

\* the number of track calls made with a metadata that satisfies P
TrackCalls(P(_)) == CallCount(P)

\* C24: for every key the count a tracker holds equals the number of track
\* calls made on it with that key, however many calls were made; a key tracked
\* at least twice has a count greater than 1.
C24_CountEqualsCalls ==
    /\ \A u \in {pm.uid : pm \in TrackInputs} \ {""} :
        LET n == TrackCalls(LAMBDA pm : pm.uid = u)
        IN  /\ CountOf(tracker.uidUsage, u) = n
            /\ n >= 2 => CountOf(tracker.uidUsage, u) > 1
    /\ \A i \in {pm.identity : pm \in TrackInputs} :
        LET n == TrackCalls(LAMBDA pm : pm.identity = i)
        IN  /\ CountOf(tracker.titleUsage, i) = n
            /\ n >= 2 => CountOf(tracker.titleUsage, i) > 1

====
